---- MODULE Spec2Model ----
(***************************************************************************)
(* KernelADHD state / persistence core.                                    *)
(*                                                                         *)
(*   src/unnamed/part_006            utils/canonical.ts + utils/audit.ts   *)
(*   src/kerneladhd/src/store/db.ts  the IndexedDB entity store            *)
(*   src/unnamed/part_007            store/context.tsx: reducer, the load  *)
(*                                   effect and the mutation operations    *)
(*                                                                         *)
(* An operation is an async function.  The code between two awaits runs    *)
(* without interruption; one action of the model is the completion of the  *)
(* awaited call together with the synchronous code that follows it, up to  *)
(* the next await.  The durable store is `db`, the reducer state is `mem`. *)
(* A callback closes over the reducer state of the render that created it; *)
(* React commits the render of a dispatch before the next UI event is      *)
(* handled, so an operation captures `mem` as it is when it is issued and  *)
(* keeps that snapshot over all its awaits.                                *)
(*                                                                         *)
(* Task fields that every operation copies verbatim and never reads        *)
(* (description, energy, importance, due_date, scheduled_date, tags,       *)
(* recurring, created_at, updated_at) are left out of the task record.     *)
(***************************************************************************)
EXTENDS Integers, Sequences, FiniteSets, TLC

VARIABLES db, mem, ops, clock, issued, ev

vars == <<db, mem, ops, clock, issued, ev>>

(***************************************************************************)
(* Bounds of the model.                                                    *)
(***************************************************************************)
MaxClock == 1
MaxOps == 2
MaxArrayLen == 2
MaxConcOps == 2

(***************************************************************************)
(* Sequence helpers.                                                       *)
(***************************************************************************)
Range(s) == {s[i] : i \in DOMAIN s}

MapSeq(s, F(_)) == [i \in DOMAIN s |-> F(s[i])]

Exists(s, P(_)) == \E i \in DOMAIN s : P(s[i])

\* Array.prototype.find: the first element satisfying P (callers test Exists first)
Find(s, P(_)) == s[CHOOSE i \in DOMAIN s : P(s[i]) /\ \A j \in 1..(i - 1) : ~P(s[j])]

\* null, for the fields typed `string | null`
Null == "<null>"

(***************************************************************************)
(* Date and number formatting.                                             *)
(***************************************************************************)
Digits36 ==
  <<"0", "1", "2", "3", "4", "5", "6", "7", "8", "9", "a", "b", "c", "d", "e", "f", "g", "h",
    "i", "j", "k", "l", "m", "n", "o", "p", "q", "r", "s", "t", "u", "v", "w", "x", "y", "z">>

\* Number.prototype.toString(36) on a non-negative integer
RECURSIVE toString36(_)
toString36(n) ==
  IF n < 36 THEN Digits36[n + 1] ELSE toString36(n \div 36) \o Digits36[(n % 36) + 1]

Pad(n, width) ==
  IF width = 3 /\ n < 10 THEN "00" \o ToString(n)
  ELSE IF (width = 3 /\ n < 100) \/ (width = 2 /\ n < 10) THEN "0" \o ToString(n)
  ELSE ToString(n)

\* Date.prototype.toISOString for a time `ms` milliseconds after the epoch, ms < 60000
toISOString(ms) ==
  "1970-01-01T00:00:" \o Pad(ms \div 1000, 2) \o "." \o Pad(ms % 1000, 3) \o "Z"

(***************************************************************************)
(* utils/canonical.ts                                                      *)
(*                                                                         *)
(* A JSON value is a tagged record; an object is the sequence of its       *)
(* <<key, value>> pairs in insertion order.                                *)
(***************************************************************************)
JNull == [t |-> "null"]
JBool(b) == [t |-> "bool", v |-> b]
JNum(n) == [t |-> "num", v |-> n]
JStr(s) == [t |-> "str", v |-> s]
JArr(a) == [t |-> "arr", v |-> a]
JObj(p) == [t |-> "obj", v |-> p]
JOpt(s) == IF s = Null THEN JNull ELSE JStr(s)

\* The property names of the model in the order of Array.prototype.sort()
\* (UTF-16 code units: "$" sorts before every letter).
KeyOrder ==
  <<"$lds", "a", "b", "c", "completed", "completed_at", "content_hash", "created", "id",
    "micro_steps", "status", "text", "title", "type", "updated", "v">>

\* a variant of the key order that keeps the insertion order (no sort())
SortedKeys_Insertion(pairs) == [i \in DOMAIN pairs |-> pairs[i][1]]

\* Object.keys(obj).sort()
SortedKeys(pairs) == SelectSeq(KeyOrder, LAMBDA k : \E i \in DOMAIN pairs : pairs[i][1] = k)

\* obj[k]
Get(pairs, k) == pairs[CHOOSE i \in DOMAIN pairs : pairs[i][1] = k][2]

\* JSON.stringify of a string with no character that needs escaping
Quote(s) == "\"" \o s \o "\""

\* Array.prototype.join(',')
RECURSIVE Join(_)
Join(strs) ==
  IF Len(strs) = 0 THEN ""
  ELSE IF Len(strs) = 1 THEN strs[1]
  ELSE strs[1] \o "," \o Join(Tail(strs))

RECURSIVE canonicalize(_)
canonicalize(obj) ==
  CASE obj.t = "null" -> "null"
    [] obj.t = "bool" -> (IF obj.v THEN "true" ELSE "false")
    [] obj.t = "num" -> ToString(obj.v)
    [] obj.t = "str" -> Quote(obj.v)
    [] obj.t = "arr" -> "[" \o Join([i \in DOMAIN obj.v |-> canonicalize(obj.v[i])]) \o "]"
    [] obj.t = "obj" ->
         LET keys == SortedKeys(obj.v)
             pairs == [i \in DOMAIN keys |->
                         Quote(keys[i]) \o ":" \o canonicalize(Get(obj.v, keys[i]))]
         IN "{" \o Join(pairs) \o "}"

\* SHA-256 of the canonical form, as lowercase hex.  The digest is kept symbolic: a
\* term that names its preimage, so that two digests are equal exactly when the
\* canonical strings are (collision resistance).
computeHash(data) == "sha256(" \o canonicalize(data) \o ")"

\* `rnd` is Math.random().toString(36).substring(2, 8), `now` is Date.now()
generateId(prefix, now, rnd) == prefix \o "_" \o toString36(now) \o "_" \o rnd

\* The values Math.random().toString(36).substring(2, 8) takes in the model
Rands == <<"4fzzzx", "k2j9qa">>

(***************************************************************************)
(* types/kernel.ts: the entities and their JSON form.                      *)
(***************************************************************************)
MetaJson(m) ==
  JObj(<< <<"v", JStr(m.v)>>, <<"type", JStr(m.type)>>, <<"id", JStr(m.id)>>,
          <<"created", JStr(m.created)>>, <<"updated", JStr(m.updated)>>,
          <<"content_hash", JStr(m.content_hash)>> >>)

StepJson(s) ==
  JObj(<< <<"id", JStr(s.id)>>, <<"text", JStr(s.text)>>, <<"completed", JBool(s.completed)>> >>)

\* A Task as the object literal { ...taskData, $lds } lays it out
TaskJson(t) ==
  JObj(<< <<"title", JStr(t.title)>>, <<"status", JStr(t.status)>>,
          <<"micro_steps", JArr(MapSeq(t.micro_steps, StepJson))>>,
          <<"completed_at", JOpt(t.completed_at)>>, <<"$lds", MetaJson(t.lds)>> >>)

(***************************************************************************)
(* data/seed.ts and the documents offered to import.                       *)
(***************************************************************************)
SeedMeta(type, id) ==
  [v |-> "1.0.0", type |-> type, id |-> id, created |-> toISOString(0),
   updated |-> toISOString(0), content_hash |-> ""]

seedTasks ==
  << [lds |-> SeedMeta("kernel.task", "seed_task_1"), title |-> "Morning pages",
      status |-> "pending",
      micro_steps |-> << [id |-> "ms_1", text |-> "open notebook", completed |-> FALSE],
                         [id |-> "ms_2", text |-> "write", completed |-> TRUE] >>,
      completed_at |-> Null],
     [lds |-> SeedMeta("kernel.task", "seed_task_2"), title |-> "Stretch",
      status |-> "active", micro_steps |-> << >>, completed_at |-> Null] >>

seedEdges ==
  << [id |-> "seed_edge_1", source |-> "seed_task_1", target |-> "seed_task_2",
      type |-> "blocks"] >>

seedRoutines ==
  << [lds |-> SeedMeta("kernel.routine", "seed_routine_1"), name |-> "Morning",
      task_ids |-> <<"seed_task_1">>, active |-> TRUE] >>

seedAuditLog ==
  << [id |-> "seed_audit_1", timestamp |-> toISOString(0), action |-> "task_created",
      entity_type |-> "task", entity_id |-> "seed_task_1", details |-> << >>] >>

defaultPreferences ==
  [theme |-> "calm", default_view |-> "list", audio_enabled |-> TRUE, ai_api_key |-> Null]

\* getPreferences() === null, and a document without preferences
NoPreferences == [null |-> TRUE]

docTask ==
  [lds |-> SeedMeta("kernel.task", "doc_task_1"), title |-> "Imported", status |-> "deferred",
   micro_steps |-> << [id |-> "ms_9", text |-> "step", completed |-> FALSE] >>,
   completed_at |-> Null]

docEdge ==
  [id |-> "doc_edge_1", source |-> "doc_task_1", target |-> "seed_task_1",
   type |-> "related_to"]

docAudit ==
  [id |-> "doc_audit_1", timestamp |-> toISOString(0), action |-> "task_edited",
   entity_type |-> "task", entity_id |-> "doc_task_1", details |-> << >>]

docPreferences ==
  [theme |-> "ocean", default_view |-> "focus", audio_enabled |-> FALSE, ai_api_key |-> Null]

(***************************************************************************)
(* store/db.ts                                                             *)
(*                                                                         *)
(* An object store is a function from key to record.                       *)
(***************************************************************************)
EmptyStore == << >>

emptyDB ==
  [tasks |-> EmptyStore, edges |-> EmptyStore, routines |-> EmptyStore, audit |-> EmptyStore,
   preferences |-> EmptyStore]

\* The ids generateId(prefix) can return, ascending (one base-36 digit of time)
GenIds(prefix) ==
  [i \in 1..((MaxClock + 1) * Len(Rands)) |->
     generateId(prefix, (i - 1) \div Len(Rands), Rands[((i - 1) % Len(Rands)) + 1])]

\* Every key of the model in IndexedDB key order (strings compare by code unit)
SortedIds ==
  GenIds("audit") \o <<"doc_audit_1", "doc_edge_1", "doc_task_1">> \o GenIds("edge")
    \o <<"seed_audit_1", "seed_edge_1", "seed_routine_1", "seed_task_1", "seed_task_2">>
    \o GenIds("task") \o <<"user_prefs">>

\* IDBObjectStore.put / delete / clear / getAll / count
idbPut(store, key, value) == (key :> value) @@ store

idbDelete(store, key) == [k \in (DOMAIN store) \ {key} |-> store[k]]

idbGetAll(store) ==
  LET keys == SelectSeq(SortedIds, LAMBDA k : k \in DOMAIN store)
  IN [i \in DOMAIN keys |-> store[keys[i]]]

\* IDBObjectStore.add: a ConstraintError when the key is already there
idbAddFails(store, key) == key \in DOMAIN store

getAllTasks(d) == idbGetAll(d.tasks)

putTask(d, task) == [d EXCEPT !.tasks = idbPut(@, task.lds.id, task)]

deleteTask(d, taskId) == [d EXCEPT !.tasks = idbDelete(@, taskId)]

getAllEdges(d) == idbGetAll(d.edges)

putEdge(d, edge) == [d EXCEPT !.edges = idbPut(@, edge.id, edge)]

deleteEdge(d, edgeId) == [d EXCEPT !.edges = idbDelete(@, edgeId)]

getAllRoutines(d) == idbGetAll(d.routines)

getAllAuditEntries(d) == idbGetAll(d.audit)

\* a variant of appendAudit that writes with put(), which overwrites a stored key
appendAudit_Put(d, entry) ==
  [ok |-> TRUE, db |-> [d EXCEPT !.audit = idbPut(@, entry.id, entry)]]

\* db.add('audit', entry): [ok, db]
appendAudit(d, entry) ==
  IF idbAddFails(d.audit, entry.id)
  THEN [ok |-> FALSE, db |-> d]
  ELSE [ok |-> TRUE, db |-> [d EXCEPT !.audit = idbPut(@, entry.id, entry)]]

getPreferences(d) ==
  IF "user_prefs" \notin DOMAIN d.preferences
  THEN NoPreferences
  ELSE LET result == d.preferences["user_prefs"]
       IN [k \in (DOMAIN result) \ {"id"} |-> result[k]]

putPreferences(d, prefs) ==
  [d EXCEPT !.preferences = idbPut(@, "user_prefs", prefs @@ [id |-> "user_prefs"])]

isSeeded(d) == Cardinality(DOMAIN d.tasks) > 0

exportKernel(d) ==
  [tasks |-> getAllTasks(d), edges |-> getAllEdges(d), routines |-> getAllRoutines(d),
   audit |-> getAllAuditEntries(d), preferences |-> getPreferences(d)]

\* for (const x of xs) await store.put(x), the key path of x being keys[i]
RECURSIVE PutAll(_, _, _)
PutAll(store, xs, keys) ==
  IF Len(xs) = 0 THEN store
  ELSE PutAll(idbPut(store, keys[1], xs[1]), Tail(xs), Tail(keys))

LdsId(x) == x.lds.id

PlainId(x) == x.id

\* What JSON.parse returned, as importKernel reads it: a property that is not there
\* is undefined, and `for (const x of undefined)` throws a TypeError
IsArray(data, field) == data.kind = "object" /\ field \in data.has

\* a variant of importKernel's test that puts the preferences of every document
HasPreferences_Always(data) == TRUE

HasPreferences(data) == data.kind = "object" /\ data.preferences # NoPreferences

\* a variant of importKernel that merges the document into the stores without
\* clearing them
importKernel_Merging(d, data, abort) ==
  LET t1 == [d EXCEPT !.tasks = PutAll(@, data.tasks, MapSeq(data.tasks, LdsId))]
      e1 == [t1 EXCEPT !.edges = PutAll(@, data.edges, MapSeq(data.edges, PlainId))]
      r1 == [e1 EXCEPT !.routines = PutAll(@, data.routines, MapSeq(data.routines, LdsId))]
      p1 == IF HasPreferences(data)
            THEN [r1 EXCEPT !.preferences =
                    idbPut(@, "user_prefs", data.preferences @@ [id |-> "user_prefs"])]
            ELSE r1
  IN IF abort THEN [ok |-> FALSE, error |-> "AbortError", db |-> d]
     ELSE IF ~IsArray(data, "tasks") THEN [ok |-> FALSE, error |-> "TypeError", db |-> d]
     ELSE IF ~IsArray(data, "edges") THEN [ok |-> FALSE, error |-> "TypeError", db |-> t1]
     ELSE IF ~IsArray(data, "routines") THEN [ok |-> FALSE, error |-> "TypeError", db |-> e1]
     ELSE [ok |-> TRUE, error |-> "", db |-> p1]

\* a variant of importKernel that also replaces the audit store by the document's
\* audit array
importKernel_ReplacingAudit(d, data, abort) ==
  LET t0 == [d EXCEPT !.tasks = EmptyStore]
      t1 == [t0 EXCEPT !.tasks = PutAll(@, data.tasks, MapSeq(data.tasks, LdsId))]
      e0 == [t1 EXCEPT !.edges = EmptyStore]
      e1 == [e0 EXCEPT !.edges = PutAll(@, data.edges, MapSeq(data.edges, PlainId))]
      r0 == [e1 EXCEPT !.routines = EmptyStore]
      r1 == [r0 EXCEPT !.routines = PutAll(@, data.routines, MapSeq(data.routines, LdsId))]
      a1 == [r1 EXCEPT !.audit = PutAll(EmptyStore, data.audit, MapSeq(data.audit, PlainId))]
      p1 == IF HasPreferences(data)
            THEN [a1 EXCEPT !.preferences =
                    idbPut(@, "user_prefs", data.preferences @@ [id |-> "user_prefs"])]
            ELSE a1
  IN IF abort THEN [ok |-> FALSE, error |-> "AbortError", db |-> d]
     ELSE IF ~IsArray(data, "tasks") THEN [ok |-> FALSE, error |-> "TypeError", db |-> t0]
     ELSE IF ~IsArray(data, "edges") THEN [ok |-> FALSE, error |-> "TypeError", db |-> e0]
     ELSE IF ~IsArray(data, "routines") THEN [ok |-> FALSE, error |-> "TypeError", db |-> r0]
     ELSE [ok |-> TRUE, error |-> "", db |-> p1]

\* importKernel: one readwrite transaction over tasks, edges, routines, preferences.
\* `abort`: a request of the transaction fails, which aborts and rolls back the
\* transaction.  A TypeError thrown between two requests leaves the transaction
\* without pending requests, and IndexedDB commits what was done so far.
\* The result is [ok, error, db].
importKernel(d, data, abort) ==
  LET t0 == [d EXCEPT !.tasks = EmptyStore]
      t1 == [t0 EXCEPT !.tasks = PutAll(@, data.tasks, MapSeq(data.tasks, LdsId))]
      e0 == [t1 EXCEPT !.edges = EmptyStore]
      e1 == [e0 EXCEPT !.edges = PutAll(@, data.edges, MapSeq(data.edges, PlainId))]
      r0 == [e1 EXCEPT !.routines = EmptyStore]
      r1 == [r0 EXCEPT !.routines = PutAll(@, data.routines, MapSeq(data.routines, LdsId))]
      p1 == IF HasPreferences(data)
            THEN [r1 EXCEPT !.preferences =
                    idbPut(@, "user_prefs", data.preferences @@ [id |-> "user_prefs"])]
            ELSE r1
  IN IF abort THEN [ok |-> FALSE, error |-> "AbortError", db |-> d]
     ELSE IF ~IsArray(data, "tasks") THEN [ok |-> FALSE, error |-> "TypeError", db |-> t0]
     ELSE IF ~IsArray(data, "edges") THEN [ok |-> FALSE, error |-> "TypeError", db |-> e0]
     ELSE IF ~IsArray(data, "routines") THEN [ok |-> FALSE, error |-> "TypeError", db |-> r0]
     ELSE [ok |-> TRUE, error |-> "", db |-> p1]

(***************************************************************************)
(* utils/audit.ts                                                          *)
(***************************************************************************)
createAuditEntry(action, entityType, entityId, details, now, rnd) ==
  [id |-> generateId("audit", now, rnd), timestamp |-> toISOString(now), action |-> action,
   entity_type |-> entityType, entity_id |-> entityId, details |-> details]

(***************************************************************************)
(* store/context.tsx: the reducer.                                         *)
(***************************************************************************)
initialState ==
  [tasks |-> << >>, edges |-> << >>, routines |-> << >>, auditLog |-> << >>,
   preferences |-> defaultPreferences, currentView |-> "list", isLoading |-> TRUE]

Upsert(xs, x, Key(_)) ==
  IF Exists(xs, LAMBDA y : Key(y) = Key(x))
  THEN MapSeq(xs, LAMBDA y : IF Key(y) = Key(x) THEN x ELSE y)
  ELSE Append(xs, x)

\* SELECT_TASK, SET_EDITING, SHOW_EDITOR and SET_AI_SUGGESTION change fields of the UI
\* only (selectedTaskId, editingTaskId, showTaskEditor, aiSuggestion), which are not
\* part of this state
reducer(state, action) ==
  CASE action.type = "SET_LOADING" ->
         [state EXCEPT !.isLoading = action.payload]
    [] action.type = "LOAD_ALL" ->
         [state EXCEPT !.tasks = action.payload.tasks, !.edges = action.payload.edges,
                       !.routines = action.payload.routines,
                       !.auditLog = action.payload.auditLog,
                       !.preferences = action.payload.preferences,
                       !.currentView = action.payload.preferences.default_view,
                       !.isLoading = FALSE]
    [] action.type = "SET_VIEW" ->
         [state EXCEPT !.currentView = action.payload]
    [] action.type = "UPSERT_TASK" ->
         [state EXCEPT !.tasks = Upsert(@, action.payload, LdsId)]
    [] action.type = "REMOVE_TASK" ->
         [state EXCEPT
            !.tasks = SelectSeq(@, LAMBDA t : t.lds.id # action.payload),
            !.edges = SelectSeq(@, LAMBDA e : e.source # action.payload
                                               /\ e.target # action.payload)]
    [] action.type = "UPSERT_EDGE" ->
         [state EXCEPT !.edges = Upsert(@, action.payload, PlainId)]
    [] action.type = "REMOVE_EDGE" ->
         [state EXCEPT !.edges = SelectSeq(@, LAMBDA e : e.id # action.payload)]
    [] action.type = "ADD_AUDIT" ->
         [state EXCEPT !.auditLog = Append(@, action.payload)]
    [] action.type = "SET_PREFERENCES" ->
         [state EXCEPT !.preferences = action.payload]
    [] action.type = "UPSERT_ROUTINE" ->
         [state EXCEPT !.routines = Upsert(@, action.payload, LdsId)]
    [] OTHER -> state

\* the reads of Promise.all, by the field of the payload they fill
ReadNames == {"tasks", "edges", "routines", "auditLog", "preferences"}

\* The payload both the load effect and importData dispatch
LoadAllPayload(d) ==
  [tasks |-> getAllTasks(d), edges |-> getAllEdges(d), routines |-> getAllRoutines(d),
   auditLog |-> getAllAuditEntries(d),
   preferences |-> IF getPreferences(d) = NoPreferences THEN defaultPreferences
                   ELSE getPreferences(d)]

(***************************************************************************)
(* The inputs of the operations.                                           *)
(***************************************************************************)
Slots == 1..2

Idle == [kind |-> "idle", pc |-> "idle"]

NoEvent == [kind |-> "none"]

TaskKinds == {"createTask", "updateTask", "completeTask", "deferTask"}

\* what TaskEditor.handleSave passes, and two drafts a caller of the service can pass
Drafts ==
  { [title |-> "Buy milk", status |-> "pending", micro_steps |-> << >>, completed_at |-> Null],
    [title |-> "Call mum", status |-> "active",
     micro_steps |-> << [id |-> "ms_5", text |-> "dial", completed |-> FALSE] >>,
     completed_at |-> Null],
    [title |-> "", status |-> "pending", micro_steps |-> << >>, completed_at |-> Null],
    [title |-> "Done already", status |-> "completed", micro_steps |-> << >>,
     completed_at |-> Null] }

\* a task object that was never stored
ghostTask ==
  [lds |-> SeedMeta("kernel.task", "doc_task_1"), title |-> "Ghost", status |-> "pending",
   micro_steps |-> << >>, completed_at |-> Null]

\* TaskCard.toggleStep / FocusView.toggleStep
ToggleStep(task, i) ==
  [task EXCEPT !.micro_steps[i] = [@ EXCEPT !.completed = ~@]]

\* updateTask(task): `shared` when the argument is a shallow copy of a task of the
\* reducer state ({ ...task, ... }), whose $lds is then the very object of the state's
\* task and of every other copy made from it
UpdateInputs(m) ==
  {[task |-> ToggleStep(t, i), shared |-> TRUE] :
      <<t, i>> \in {<<u, j>> \in Range(m.tasks) \X (1..2) : j \in DOMAIN u.micro_steps}}
    \cup {[task |-> [t EXCEPT !.title = "Edited"], shared |-> TRUE] : t \in Range(m.tasks)}
    \cup {[task |-> ghostTask, shared |-> FALSE]}

TaskIdInputs(m) == {t.lds.id : t \in Range(m.tasks)} \cup {"seed_task_1"}

EdgeIdInputs(m) == {e.id : e \in Range(m.edges)} \cup {"seed_edge_1"}

EdgeTypeInputs == {"depends_on"}

\* the entries of Layout's navigation (ViewType and 'settings')
ViewInputs == {"list", "focus", "graph", "timeline", "history", "settings"}

\* what AIAssist.handleAccept / handleReject pass to logAudit
AuditInputs ==
  { [action |-> "ai_suggestion_accepted", entityType |-> "ai_suggestion", entityId |-> "latest",
     details |-> << <<"response", "Start small">> >>],
    [action |-> "ai_suggestion_rejected", entityType |-> "ai_suggestion", entityId |-> "latest",
     details |-> << <<"response", "Start small">> >>] }

PartialInputs == { [theme |-> "forest"], [audio_enabled |-> FALSE] }

\* JSON.parse(json): `parses` is whether it returns, `data` what it returns
EmptyData ==
  [kind |-> "string", has |-> {}, tasks |-> << >>, edges |-> << >>, routines |-> << >>,
   audit |-> << >>, preferences |-> NoPreferences]

seedData ==
  [kind |-> "object", has |-> {"tasks", "edges", "routines"}, tasks |-> seedTasks,
   edges |-> seedEdges, routines |-> seedRoutines, audit |-> << >>,
   preferences |-> defaultPreferences]

\* the store as the load effect leaves it on the first mount
RECURSIVE AppendAll(_, _)
AppendAll(d, entries) ==
  IF Len(entries) = 0 THEN d ELSE AppendAll(appendAudit(d, Head(entries)).db, Tail(entries))

seededDB == AppendAll(importKernel(emptyDB, seedData, FALSE).db, seedAuditLog)

\* JSON.parse(JSON.stringify(data)) of what exportKernel() returns
DocumentOf(exported) ==
  [kind |-> "object", has |-> {"tasks", "edges", "routines", "audit"},
   tasks |-> exported.tasks, edges |-> exported.edges, routines |-> exported.routines,
   audit |-> exported.audit, preferences |-> exported.preferences]

\* the document exported from the store right after the first load
exportedSeed == DocumentOf(exportKernel(seededDB))

\* the same export with a task renamed outside this session
editedSeed ==
  [exportedSeed EXCEPT
     !.tasks = MapSeq(@, LAMBDA t : IF t.lds.id = "seed_task_1"
                                    THEN [t EXCEPT !.title = "Renamed"] ELSE t)]

ImportInputs ==
  { [parses |-> FALSE, data |-> EmptyData],
    \* a JSON string literal
    [parses |-> TRUE, data |-> EmptyData],
    \* { "tasks": [...] }
    [parses |-> TRUE,
     data |-> [EmptyData EXCEPT !.kind = "object", !.has = {"tasks"}, !.tasks = <<docTask>>]],
    \* a whole document, with an audit array and preferences
    [parses |-> TRUE,
     data |-> [kind |-> "object", has |-> {"tasks", "edges", "routines", "audit"},
               tasks |-> <<docTask>>, edges |-> <<docEdge>>, routines |-> << >>,
               audit |-> <<docAudit>>, preferences |-> docPreferences]],
    \* { "tasks": [], "edges": [], "routines": [], "preferences": null }
    [parses |-> TRUE,
     data |-> [EmptyData EXCEPT !.kind = "object", !.has = {"tasks", "edges", "routines"}]],
    \* an earlier export of this store
    [parses |-> TRUE, data |-> exportedSeed],
    \* that export, edited
    [parses |-> TRUE, data |-> editedSeed] }

(***************************************************************************)
(* store/context.tsx: the operations.                                      *)
(***************************************************************************)
\* An operation can be issued once the load effect has dispatched LOAD_ALL (App
\* renders a loading screen until then).  One at a time, or (conc) while another
\* operation is still awaiting its storage calls.
CanIssue(s, conc) ==
  /\ ops[s].kind = "idle"
  /\ \A t \in Slots : t < s => ops[t].kind # "idle"
  /\ ~conc => \A t \in Slots : ops[t].kind = "idle"
  /\ issued < (IF conc THEN MaxConcOps ELSE MaxOps)
  /\ ~mem.isLoading

\* `os` is the pending operations as the step leaves the other slots
BeginIn(os, s, o) ==
  /\ ops' = [os EXCEPT ![s] = o @@ [pre |-> [db |-> db, mem |-> mem], seq |-> issued + 1]]
  /\ issued' = issued + 1
  /\ ev' = NoEvent

Begin(s, o) == BeginIn(ops, s, o)

ContinueIn(os, s, o) ==
  /\ ops' = [os EXCEPT ![s] = o]
  /\ ev' = NoEvent

Continue(s, o) == ContinueIn(ops, s, o)

\* the promise of the operation settles
Finish(s, o, result, error) ==
  /\ ops' = [ops EXCEPT ![s] = Idle]
  /\ ev' = [kind |-> o.kind, result |-> result, error |-> error, op |-> o, slot |-> s]

\* Object identity of $lds.  `shared` in a pending operation says that its task.$lds is
\* the $lds object of the reducer state's task with that id; the operations for which
\* that holds, for one id, all hold one object.
Aliased(o, id) == "shared" \in DOMAIN o /\ o.shared /\ o.task.lds.id = id

\* task.$lds is mutated in place: the task of the reducer state whose $lds is that
\* object changes with it ...
PatchMeta(m, id, new) ==
  [m EXCEPT !.tasks = MapSeq(@, LAMBDA t : IF t.lds.id = id THEN [t EXCEPT !.lds = new]
                                           ELSE t)]

\* ... and so does the task of every pending operation that holds the object
PatchOps(os, id, new) ==
  [r \in Slots |-> IF Aliased(os[r], id) THEN [os[r] EXCEPT !.task.lds = new] ELSE os[r]]

\* UPSERT_TASK of the task of slot s: the state's task with that id is now that object.
\* Another operation on the id holds the state's object only if it held the same one.
Rebound(os, s, id) ==
  [r \in Slots |-> IF r # s /\ "shared" \in DOMAIN os[r] /\ os[r].task.lds.id = id
                    THEN [os[r] EXCEPT !.shared = @ /\ os[s].shared]
                    ELSE os[r]]

\* REMOVE_TASK of the id, or LOAD_ALL (all |-> TRUE): the state no longer holds the
\* objects it held.  Of two slots one is the operation that dispatches, so at most one
\* pending operation is left with the old object.
Detached(os, all, id) ==
  [r \in Slots |-> IF "shared" \in DOMAIN os[r] /\ (all \/ os[r].task.lds.id = id)
                    THEN [os[r] EXCEPT !.shared = FALSE]
                    ELSE os[r]]

\* a variant of the action tags in which a removed task is logged as a removed edge
AuditActionOf_EdgeDeleted(kind) ==
  CASE kind = "createTask" -> "task_created"
    [] kind = "updateTask" -> "task_edited"
    [] kind = "completeTask" -> "task_completed"
    [] kind = "deferTask" -> "task_deferred"
    [] kind = "removeTask" -> "edge_deleted"
    [] kind = "addEdge" -> "edge_created"
    [] kind = "removeEdge" -> "edge_deleted"
    [] kind = "exportAllData" -> "kernel_exported"
    [] kind = "importData" -> "kernel_imported"

AuditActionOf(kind) ==
  CASE kind = "createTask" -> "task_created"
    [] kind = "updateTask" -> "task_edited"
    [] kind = "completeTask" -> "task_completed"
    [] kind = "deferTask" -> "task_deferred"
    [] kind = "removeTask" -> "task_deleted"
    [] kind = "addEdge" -> "edge_created"
    [] kind = "removeEdge" -> "edge_deleted"
    [] kind = "exportAllData" -> "kernel_exported"
    [] kind = "importData" -> "kernel_imported"

\* createTask: up to `await computeHash(task)`; computeHash canonicalizes before it awaits
NewTask(taskData, id, nowISO) ==
  taskData @@ [lds |-> [v |-> "1.0.0", type |-> "kernel.task", id |-> id, created |-> nowISO,
                        updated |-> nowISO, content_hash |-> ""]]

CreateTask(s, conc) ==
  /\ CanIssue(s, conc)
  /\ \E taskData \in Drafts, rnd \in Range(Rands) :
       LET task == NewTask(taskData, generateId("task", clock, rnd), toISOString(clock))
       IN Begin(s, [kind |-> "createTask", pc |-> "hash", task |-> task,
                    hash |-> computeHash(TaskJson(task)), title |-> task.title,
                    shared |-> FALSE])
  /\ UNCHANGED <<db, mem, clock>>

\* updateTask: task.$lds.updated = now, up to `await computeHash(task)`
TouchedTask(task, nowISO) == [task EXCEPT !.lds.updated = nowISO]

UpdateTask(s, conc) ==
  /\ CanIssue(s, conc)
  /\ \E inp \in UpdateInputs(mem) :
       LET task == TouchedTask(inp.task, toISOString(clock))
       IN /\ BeginIn(IF inp.shared THEN PatchOps(ops, task.lds.id, task.lds) ELSE ops, s,
                     [kind |-> "updateTask", pc |-> "hash", task |-> task,
                      hash |-> computeHash(TaskJson(task)), title |-> task.title,
                      shared |-> inp.shared])
          /\ mem' = IF inp.shared THEN PatchMeta(mem, task.lds.id, task.lds) ELSE mem
  /\ UNCHANGED <<db, clock>>

\* a variant of completeTask that leaves the micro-steps as they were
CompletedTask_KeepingSteps(task, nowISO) ==
  [task EXCEPT !.status = "completed", !.completed_at = nowISO, !.lds.updated = nowISO]

\* completeTask: the object `updated`, with its fresh $lds
CompletedTask(task, nowISO) ==
  [task EXCEPT !.status = "completed", !.completed_at = nowISO,
               !.micro_steps = MapSeq(@, LAMBDA st : [st EXCEPT !.completed = TRUE]),
               !.lds.updated = nowISO]

CompleteTask(s, conc) ==
  /\ CanIssue(s, conc)
  /\ \E taskId \in TaskIdInputs(mem) :
       IF ~Exists(mem.tasks, LAMBDA t : t.lds.id = taskId)
       THEN /\ Finish(s, [kind |-> "completeTask", id |-> taskId,
                          pre |-> [db |-> db, mem |-> mem]], "noop", "")
            /\ issued' = issued + 1
       ELSE LET task == Find(mem.tasks, LAMBDA t : t.lds.id = taskId)
                updated == CompletedTask(task, toISOString(clock))
            IN Begin(s, [kind |-> "completeTask", pc |-> "hash", task |-> updated,
                         hash |-> computeHash(TaskJson(updated)), title |-> task.title,
                         shared |-> FALSE])
  /\ UNCHANGED <<db, mem, clock>>

\* deferTask: the object `updated`, with its fresh $lds
DeferredTask(task, nowISO) == [task EXCEPT !.status = "deferred", !.lds.updated = nowISO]

\* a variant of deferTask without `if (!task) return`: for an id that is not found the
\* object it builds has no $lds.id, and putTask rejects it
DeferTask_Unguarded(s, conc) ==
  /\ CanIssue(s, conc)
  /\ \E taskId \in TaskIdInputs(mem) :
       IF ~Exists(mem.tasks, LAMBDA t : t.lds.id = taskId)
       THEN /\ Finish(s, [kind |-> "deferTask", id |-> taskId,
                          pre |-> [db |-> db, mem |-> mem]], "failed", "DataError")
            /\ issued' = issued + 1
       ELSE LET task == Find(mem.tasks, LAMBDA t : t.lds.id = taskId)
                updated == DeferredTask(task, toISOString(clock))
            IN Begin(s, [kind |-> "deferTask", pc |-> "hash", task |-> updated,
                         hash |-> computeHash(TaskJson(updated)), title |-> task.title,
                         shared |-> FALSE])
  /\ UNCHANGED <<db, mem, clock>>

DeferTask(s, conc) ==
  /\ CanIssue(s, conc)
  /\ \E taskId \in TaskIdInputs(mem) :
       IF ~Exists(mem.tasks, LAMBDA t : t.lds.id = taskId)
       THEN /\ Finish(s, [kind |-> "deferTask", id |-> taskId,
                          pre |-> [db |-> db, mem |-> mem]], "noop", "")
            /\ issued' = issued + 1
       ELSE LET task == Find(mem.tasks, LAMBDA t : t.lds.id = taskId)
                updated == DeferredTask(task, toISOString(clock))
            IN Begin(s, [kind |-> "deferTask", pc |-> "hash", task |-> updated,
                         hash |-> computeHash(TaskJson(updated)), title |-> task.title,
                         shared |-> FALSE])
  /\ UNCHANGED <<db, mem, clock>>

\* computeHash resolves: `$lds.content_hash = ...`, then putTask is called, which
\* awaits getDB() before it calls db.put
WithHash(task, hash) == [task EXCEPT !.lds.content_hash = hash]

HashResolves(s) ==
  /\ ops[s].pc = "hash"
  /\ LET o == ops[s]
         task == WithHash(o.task, o.hash)
     IN /\ ContinueIn(IF o.shared THEN PatchOps(ops, task.lds.id, task.lds) ELSE ops, s,
                      [o EXCEPT !.task = task, !.pc = "getDB"])
        /\ mem' = IF o.shared THEN PatchMeta(mem, task.lds.id, task.lds) ELSE mem
  /\ UNCHANGED <<db, clock, issued>>

\* getDB() resolves inside putTask and db.put is called: it clones the task as it is
\* now (`record`); later writes to the $lds object do not reach the clone
PutTaskCalled(s) ==
  /\ ops[s].pc = "getDB"
  /\ Continue(s, [ops[s] EXCEPT !.pc = "put"] @@ [record |-> ops[s].task])
  /\ UNCHANGED <<db, mem, clock, issued>>

\* putTask settles; on success dispatch UPSERT_TASK and call logAudit
PutTaskSettles(s) ==
  /\ ops[s].pc = "put"
  /\ ops[s].kind \in TaskKinds
  /\ LET o == ops[s]
     IN \E fail \in BOOLEAN, rnd \in Range(Rands) :
          IF fail
          THEN /\ Finish(s, o, "failed", "StorageUnavailable")
               /\ UNCHANGED <<db, mem>>
          ELSE /\ db' = putTask(db, o.record)
               /\ mem' = reducer(mem, [type |-> "UPSERT_TASK", payload |-> o.task])
               /\ ContinueIn(Rebound(ops, s, o.task.lds.id), s,
                    [o EXCEPT !.pc = "audit", !.shared = TRUE]
                    @@ [entry |-> createAuditEntry(AuditActionOf(o.kind), "task", o.task.lds.id,
                                                   << <<"title", o.title>> >>, clock, rnd)])
  /\ UNCHANGED <<clock, issued>>

\* logAudit: appendAudit settles; on success dispatch ADD_AUDIT
AuditSettles(s) ==
  /\ ops[s].pc = "audit"
  /\ LET o == ops[s]
         r == appendAudit(db, o.entry)
     IN \E fail \in BOOLEAN :
          IF fail \/ ~r.ok
          THEN /\ Finish(s, o, "failed",
                         IF r.ok THEN "StorageUnavailable" ELSE "ConstraintError")
               /\ UNCHANGED <<db, mem>>
          ELSE /\ db' = r.db
               /\ mem' = reducer(mem, [type |-> "ADD_AUDIT", payload |-> o.entry])
               /\ Finish(s, o, "ok", "")
  /\ UNCHANGED <<clock, issued>>

\* removeTask: up to `await dbDeleteTask(taskId)`.  `state` is the closure's snapshot:
\* relatedEdges is taken from the edges of the render that created the callback.
\* a variant of the cascade that takes every edge of the state as related
RelatedEdges_All(edges, taskId) == edges

RelatedEdges(edges, taskId) ==
  SelectSeq(edges, LAMBDA e : e.source = taskId \/ e.target = taskId)

TitleOrUnknown(tasks, taskId) ==
  IF Exists(tasks, LAMBDA t : t.lds.id = taskId)
       /\ Find(tasks, LAMBDA t : t.lds.id = taskId).title # ""
  THEN Find(tasks, LAMBDA t : t.lds.id = taskId).title
  ELSE "Unknown"

RemoveTask(s, conc) ==
  /\ CanIssue(s, conc)
  /\ \E taskId \in TaskIdInputs(mem) :
       Begin(s, [kind |-> "removeTask", pc |-> "delTask", id |-> taskId,
                 title |-> TitleOrUnknown(mem.tasks, taskId),
                 relatedEdges |-> RelatedEdges(mem.edges, taskId)])
  /\ UNCHANGED <<db, mem, clock>>

\* the tail of removeTask: dispatch REMOVE_TASK and call logAudit
RemoveTaskTail(s, o, rnd) ==
  /\ mem' = reducer(mem, [type |-> "REMOVE_TASK", payload |-> o.id])
  /\ ContinueIn(Detached(ops, FALSE, o.id), s, [o EXCEPT !.pc = "audit"]
       @@ [entry |-> createAuditEntry(AuditActionOf(o.kind), "task", o.id,
                                      << <<"title", o.title>> >>, clock, rnd)])

\* dbDeleteTask settles
DeleteTaskSettles(s) ==
  /\ ops[s].pc = "delTask"
  /\ LET o == ops[s]
     IN \E fail \in BOOLEAN, rnd \in Range(Rands) :
          IF fail
          THEN /\ Finish(s, o, "failed", "StorageUnavailable")
               /\ UNCHANGED <<db, mem>>
          ELSE /\ db' = deleteTask(db, o.id)
               /\ IF Len(o.relatedEdges) = 0
                  THEN RemoveTaskTail(s, o, rnd)
                  ELSE /\ Continue(s, [o EXCEPT !.pc = "delEdges"])
                       /\ mem' = mem
  /\ UNCHANGED <<clock, issued>>

\* one `await dbDeleteEdge(edge.id)` of the loop settles
CascadeEdgeSettles(s) ==
  /\ ops[s].pc = "delEdges"
  /\ LET o == ops[s]
         rest == Tail(o.relatedEdges)
     IN \E fail \in BOOLEAN, rnd \in Range(Rands) :
          IF fail
          THEN /\ Finish(s, o, "failed", "StorageUnavailable")
               /\ UNCHANGED <<db, mem>>
          ELSE /\ db' = deleteEdge(db, Head(o.relatedEdges).id)
               /\ IF Len(rest) = 0
                  THEN RemoveTaskTail(s, [o EXCEPT !.relatedEdges = rest], rnd)
                  ELSE /\ Continue(s, [o EXCEPT !.relatedEdges = rest])
                       /\ mem' = mem
  /\ UNCHANGED <<clock, issued>>

\* addEdge: up to `await putEdge(edge)`
AddEdge(s, conc) ==
  /\ CanIssue(s, conc)
  /\ \E source \in TaskIdInputs(mem), target \in TaskIdInputs(mem),
        type \in EdgeTypeInputs, rnd \in Range(Rands) :
       Begin(s, [kind |-> "addEdge", pc |-> "putEdge",
                 edge |-> [id |-> generateId("edge", clock, rnd), source |-> source,
                           target |-> target, type |-> type]])
  /\ UNCHANGED <<db, mem, clock>>

PutEdgeSettles(s) ==
  /\ ops[s].pc = "putEdge"
  /\ LET o == ops[s]
     IN \E fail \in BOOLEAN, rnd \in Range(Rands) :
          IF fail
          THEN /\ Finish(s, o, "failed", "StorageUnavailable")
               /\ UNCHANGED <<db, mem>>
          ELSE /\ db' = putEdge(db, o.edge)
               /\ mem' = reducer(mem, [type |-> "UPSERT_EDGE", payload |-> o.edge])
               /\ Continue(s, [o EXCEPT !.pc = "audit"]
                    @@ [entry |-> createAuditEntry(AuditActionOf(o.kind), "edge", o.edge.id,
                                    << <<"source", o.edge.source>>, <<"target", o.edge.target>>,
                                       <<"type", o.edge.type>> >>, clock, rnd)])
  /\ UNCHANGED <<clock, issued>>

\* removeEdge: up to `await dbDeleteEdge(edgeId)`
RemoveEdge(s, conc) ==
  /\ CanIssue(s, conc)
  /\ \E edgeId \in EdgeIdInputs(mem) :
       Begin(s, [kind |-> "removeEdge", pc |-> "delEdge", id |-> edgeId])
  /\ UNCHANGED <<db, mem, clock>>

DeleteEdgeSettles(s) ==
  /\ ops[s].pc = "delEdge"
  /\ LET o == ops[s]
     IN \E fail \in BOOLEAN, rnd \in Range(Rands) :
          IF fail
          THEN /\ Finish(s, o, "failed", "StorageUnavailable")
               /\ UNCHANGED <<db, mem>>
          ELSE /\ db' = deleteEdge(db, o.id)
               /\ mem' = reducer(mem, [type |-> "REMOVE_EDGE", payload |-> o.id])
               /\ Continue(s, [o EXCEPT !.pc = "audit"]
                    @@ [entry |-> createAuditEntry(AuditActionOf(o.kind), "edge", o.id, << >>,
                                                   clock, rnd)])
  /\ UNCHANGED <<clock, issued>>

\* updatePreferences: { ...state.preferences, ...partial }, up to `await putPreferences`
MergePreferences(prefs, partial) == partial @@ prefs

UpdatePreferences(s, conc) ==
  /\ CanIssue(s, conc)
  /\ \E partial \in PartialInputs :
       Begin(s, [kind |-> "updatePreferences", pc |-> "putPrefs", partial |-> partial,
                 updated |-> MergePreferences(mem.preferences, partial)])
  /\ UNCHANGED <<db, mem, clock>>

PutPreferencesSettles(s) ==
  /\ ops[s].pc = "putPrefs"
  /\ LET o == ops[s]
     IN \E fail \in BOOLEAN :
          IF fail
          THEN /\ Finish(s, o, "failed", "StorageUnavailable")
               /\ UNCHANGED <<db, mem>>
          ELSE /\ db' = putPreferences(db, o.updated)
               /\ mem' = reducer(mem, [type |-> "SET_PREFERENCES", payload |-> o.updated])
               /\ Finish(s, o, "ok", "")
  /\ UNCHANGED <<clock, issued>>

\* Layout.handleNav: setView(view), or for 'settings' setView('list') and then the
\* context's dispatch of SET_VIEW 'settings'
handleNav(m, view) ==
  IF view = "settings"
  THEN reducer(reducer(m, [type |-> "SET_VIEW", payload |-> "list"]),
               [type |-> "SET_VIEW", payload |-> "settings"])
  ELSE reducer(m, [type |-> "SET_VIEW", payload |-> view])

\* setView: dispatch SET_VIEW; nothing is awaited, stored or logged
SetView(s, conc) ==
  /\ CanIssue(s, conc)
  /\ \E view \in ViewInputs :
       /\ mem' = handleNav(mem, view)
       /\ Finish(s, [kind |-> "setView", view |-> view, pre |-> [db |-> db, mem |-> mem]],
                 "ok", "")
  /\ issued' = issued + 1
  /\ UNCHANGED <<db, clock>>

\* logAudit called on its own (it is part of the context value): createAuditEntry,
\* up to `await appendAudit(entry)`
LogAudit(s, conc) ==
  /\ CanIssue(s, conc)
  /\ \E inp \in AuditInputs, rnd \in Range(Rands) :
       Begin(s, [kind |-> "logAudit", pc |-> "audit",
                 entry |-> createAuditEntry(inp.action, inp.entityType, inp.entityId,
                                            inp.details, clock, rnd)])
  /\ UNCHANGED <<db, mem, clock>>

\* exportAllData: `exportKernel` is not among the names context.tsx imports from ./db
\* (lines 6-13), so evaluating it throws a ReferenceError and the promise rejects
\* before any storage call or logAudit.
ExportKernelImported == FALSE

\* A JSON text: what it is the text of
stringifyExport(data) == [json |-> "object", of |-> data]

\* Settings.safeJSONStringify(exported): `exported` is already a string (the text
\* exportAllData returns), so the result is the JSON literal of that string
safeJSONStringify(exported) == [json |-> "string", of |-> exported]

NoFile == [json |-> "none"]

\* JSON.parse(text) in importData
parseFile(text) ==
  IF text.json = "string" THEN [EmptyData EXCEPT !.kind = "string"] ELSE DocumentOf(text.of)

\* Settings.handleExport: the text handed to downloadTextFile, if any; a rejection of
\* exportAllData is caught and logged, and no file is written
handleExport(d) ==
  IF ExportKernelImported THEN safeJSONStringify(stringifyExport(exportKernel(d))) ELSE NoFile

ExportAllData(s, conc) ==
  /\ CanIssue(s, conc)
  /\ ~ExportKernelImported
  /\ Finish(s, [kind |-> "exportAllData", pre |-> [db |-> db, mem |-> mem],
                file |-> handleExport(db)], "failed", "ReferenceError")
  /\ issued' = issued + 1
  /\ UNCHANGED <<db, mem, clock>>

\* importData: JSON.parse(json), up to `await importKernel(data)`
ImportData(s, conc) ==
  /\ CanIssue(s, conc)
  /\ \E inp \in ImportInputs :
       IF ~inp.parses
       THEN /\ Finish(s, [kind |-> "importData", data |-> inp.data, parses |-> FALSE,
                          pre |-> [db |-> db, mem |-> mem]], "failed", "SyntaxError")
            /\ issued' = issued + 1
       ELSE Begin(s, [kind |-> "importData", pc |-> "import", data |-> inp.data,
                      parses |-> TRUE, got |-> << >>])
  /\ UNCHANGED <<db, mem, clock>>

\* importKernel settles
ImportKernelSettles(s) ==
  /\ ops[s].pc = "import"
  /\ LET o == ops[s]
     IN \E abort \in BOOLEAN :
          LET r == importKernel(db, o.data, abort)
          IN /\ db' = r.db
             /\ IF r.ok THEN Continue(s, [o EXCEPT !.pc = "reload"])
                ELSE Finish(s, o, "failed", r.error)
  /\ UNCHANGED <<mem, clock, issued>>

\* The stores the next storage call of a pending operation writes
WritesNext(o) ==
  CASE o.pc \in {"put", "delTask"} -> {"tasks"}
    [] o.pc \in {"putEdge", "delEdge", "delEdges"} -> {"edges"}
    [] o.pc \in {"audit", "seedAudit"} -> {"auditLog"}
    [] o.pc = "putPrefs" -> {"preferences"}
    [] o.pc \in {"import", "seed"} -> {"tasks", "edges", "routines", "preferences"}
    [] OTHER -> {}

\* The five reads of Promise.all settle one by one, each in a transaction of its own and
\* in any order; `got` is what has been read so far.  A read changes neither the store
\* nor the reducer state, so it shows only against a write to its store: a read is
\* taken on its own when another operation is about to write that store, and otherwise
\* together with the last one.  A read that rejects rejects importData.  With the last
\* read: dispatch LOAD_ALL with what was read and call logAudit.
ImportReloadSettles(s) ==
  /\ ops[s].pc = "reload"
  /\ LET o == ops[s]
         rest == ReadNames \ DOMAIN o.got
         early == {n \in rest : \E r \in Slots \ {s} : n \in WritesNext(ops[r])}
     IN \/ /\ Finish(s, o, "failed", "StorageUnavailable")
           /\ mem' = mem
        \/ \E names \in {{n} : n \in early} \cup {rest} :
             LET got == o.got @@ [n \in names |-> LoadAllPayload(db)[n]]
             IN IF DOMAIN got # ReadNames
                THEN /\ Continue(s, [o EXCEPT !.got = got])
                     /\ mem' = mem
                ELSE \E rnd \in Range(Rands) :
                  /\ mem' = reducer(mem, [type |-> "LOAD_ALL", payload |-> got])
                  /\ ContinueIn(Detached(ops, TRUE, ""), s,
                       [o EXCEPT !.pc = "audit", !.got = got]
                       @@ [entry |-> createAuditEntry(AuditActionOf(o.kind), "kernel",
                                                      "full_import", << >>, clock, rnd)])
  /\ UNCHANGED <<db, clock, issued>>

(***************************************************************************)
(* store/context.tsx: the load effect of AppProvider, run once per mount.  *)
(***************************************************************************)
LoadOp == [kind |-> "load", pc |-> "isSeeded", i |-> 1]

\* `await isSeeded()` settles
IsSeededSettles(s) ==
  /\ ops[s].pc = "isSeeded"
  /\ \E fail \in BOOLEAN :
       IF fail
       THEN Finish(s, ops[s], "failed", "StorageUnavailable")
       ELSE Continue(s, [ops[s] EXCEPT !.pc = IF isSeeded(db) THEN "getAll" ELSE "seed"])
  /\ UNCHANGED <<db, mem, clock, issued>>

\* `await importKernel({ tasks: seedTasks, ... })` settles
SeedImportSettles(s) ==
  /\ ops[s].pc = "seed"
  /\ LET o == ops[s]
     IN \E abort \in BOOLEAN :
          LET r == importKernel(db, seedData, abort)
          IN /\ db' = r.db
             /\ IF r.ok
                THEN Continue(s, [o EXCEPT !.pc = IF Len(seedAuditLog) = 0 THEN "getAll"
                                                  ELSE "seedAudit"])
                ELSE Finish(s, o, "failed", r.error)
  /\ UNCHANGED <<mem, clock, issued>>

\* one `await appendAudit(entry)` of the seed loop settles
SeedAuditSettles(s) ==
  /\ ops[s].pc = "seedAudit"
  /\ LET o == ops[s]
         r == appendAudit(db, seedAuditLog[o.i])
     IN \E fail \in BOOLEAN :
          IF fail \/ ~r.ok
          THEN /\ Finish(s, o, "failed",
                         IF r.ok THEN "StorageUnavailable" ELSE "ConstraintError")
               /\ db' = db
          ELSE /\ db' = r.db
               /\ Continue(s, [o EXCEPT !.i = @ + 1,
                                        !.pc = IF o.i = Len(seedAuditLog) THEN "getAll"
                                               ELSE "seedAudit"])
  /\ UNCHANGED <<mem, clock, issued>>

\* the five reads settle: dispatch LOAD_ALL.  No operation is issued before the load,
\* so no write falls between the reads.  A read that rejects ends the effect without
\* LOAD_ALL.
LoadAllSettles(s) ==
  /\ ops[s].pc = "getAll"
  /\ \E fail \in BOOLEAN :
       IF fail
       THEN /\ Finish(s, ops[s], "failed", "StorageUnavailable")
            /\ mem' = mem
       ELSE /\ mem' = reducer(mem, [type |-> "LOAD_ALL", payload |-> LoadAllPayload(db)])
            /\ Finish(s, ops[s], "ok", "")
  /\ UNCHANGED <<db, clock, issued>>

\* The page is reloaded: the reducer state and every pending continuation are gone,
\* the store stays, and AppProvider mounts again.
Restart ==
  /\ mem' = initialState
  /\ ops' = [s \in Slots |-> IF s = 1 THEN LoadOp ELSE Idle]
  /\ ev' = NoEvent
  /\ UNCHANGED <<db, clock, issued>>

\* Date.now() moves on
Tick ==
  /\ clock < MaxClock
  /\ clock' = clock + 1
  /\ ev' = NoEvent
  /\ UNCHANGED <<db, mem, ops, issued>>

(***************************************************************************)
(* Specifications.                                                         *)
(***************************************************************************)
\* A first visit: an empty database, the initial reducer state, the load effect pending
Init ==
  /\ db = emptyDB
  /\ mem = initialState
  /\ ops = [s \in Slots |-> IF s = 1 THEN LoadOp ELSE Idle]
  /\ clock = 0
  /\ issued = 0
  /\ ev = NoEvent

Settles(s) ==
  \/ HashResolves(s)
  \/ PutTaskCalled(s)
  \/ PutTaskSettles(s)
  \/ AuditSettles(s)
  \/ DeleteTaskSettles(s)
  \/ CascadeEdgeSettles(s)
  \/ PutEdgeSettles(s)
  \/ DeleteEdgeSettles(s)
  \/ PutPreferencesSettles(s)
  \/ ImportKernelSettles(s)
  \/ ImportReloadSettles(s)
  \/ IsSeededSettles(s)
  \/ SeedImportSettles(s)
  \/ SeedAuditSettles(s)
  \/ LoadAllSettles(s)

Issues(s, conc) ==
  \/ CreateTask(s, conc)
  \/ UpdateTask(s, conc)
  \/ CompleteTask(s, conc)
  \/ DeferTask(s, conc)
  \/ RemoveTask(s, conc)
  \/ AddEdge(s, conc)
  \/ RemoveEdge(s, conc)
  \/ UpdatePreferences(s, conc)
  \/ SetView(s, conc)
  \/ LogAudit(s, conc)
  \/ ExportAllData(s, conc)
  \/ ImportData(s, conc)

\* operations issued one at a time, each after the one before it has settled
Next ==
  \/ \E s \in Slots : Issues(s, FALSE) \/ Settles(s)
  \/ Tick

Spec == Init /\ [][Next]_vars

\* the same, over several sessions
NextRestart ==
  \/ \E s \in Slots : Issues(s, FALSE) \/ Settles(s)
  \/ Restart
  \/ Tick

SpecRestart == Init /\ [][NextRestart]_vars

\* operations issued while another one is still in flight
NextConc ==
  \/ \E s \in Slots : Issues(s, TRUE) \/ Settles(s)
  \/ Tick

SpecConc == Init /\ [][NextConc]_vars

(***************************************************************************)
(* utils/canonical.ts on its own: canonicalize applied to JSON values.     *)
(* An input is a pair <<value, copy>>: `copy` is `value` with the keys of  *)
(* its objects, at every depth, inserted in a possibly different order.    *)
(***************************************************************************)
CanonKeys == {"a", "b", "c"}

Atoms == {JNull, JBool(TRUE), JNum(0), JNum(12), JStr("b")}

AtomPairs == {<<a, a>> : a \in Atoms}

\* arrays of up to MaxArrayLen elements, the copy holding the copies in the same order
ArraysOf(P) ==
  UNION {{<<JArr([i \in 1..n |-> f[i][1]]), JArr([i \in 1..n |-> f[i][2]])>> :
            f \in [1..n -> P]} : n \in 0..MaxArrayLen}

\* the orders in which the keys K can be inserted
Orders(K) ==
  {o \in [1..Cardinality(K) -> K] : \A i, j \in DOMAIN o : i # j => o[i] # o[j]}

\* objects with up to n keys, the copy built with its keys in any order
ObjectsOf(P, n) ==
  UNION {UNION {{<<JObj([i \in DOMAIN o1 |-> <<o1[i], g[o1[i]][1]>>]),
                   JObj([i \in DOMAIN o2 |-> <<o2[i], g[o2[i]][2]>>])>> :
                    o1 \in Orders(K), o2 \in Orders(K)} : g \in [K -> P]} :
           K \in {L \in SUBSET CanonKeys : Cardinality(L) <= n}}

\* small objects, to nest
InnerPairs == ObjectsOf({<<JNull, JNull>>}, 2)

CanonInputs ==
  AtomPairs \cup ArraysOf(AtomPairs) \cup ObjectsOf(AtomPairs, 2)
    \cup ObjectsOf({<<JBool(TRUE), JBool(TRUE)>>, <<JNum(12), JNum(12)>>}, 3)
    \cup ArraysOf(InnerPairs) \cup ObjectsOf(InnerPairs \cup {<<JStr("b"), JStr("b")>>}, 2)

\* the array with its elements in the opposite order (any other value: itself)
Reversed(value) ==
  IF value.t = "arr"
  THEN JArr([i \in DOMAIN value.v |-> value.v[Len(value.v) + 1 - i]])
  ELSE value

InitCanon ==
  /\ db = emptyDB
  /\ mem = initialState
  /\ ops = [s \in Slots |-> Idle]
  /\ clock = 0
  /\ issued = 0
  /\ ev \in {[kind |-> "value", value |-> p[1], copy |-> p[2]] : p \in CanonInputs}

\* canonicalize(value) twice, canonicalize(copy) and canonicalize of the reversed array
Canonicalize ==
  /\ ev.kind = "value"
  /\ ev' = [kind |-> "canonical", value |-> ev.value, copy |-> ev.copy,
            once |-> canonicalize(ev.value), twice |-> canonicalize(ev.value),
            ofCopy |-> canonicalize(ev.copy), ofReversed |-> canonicalize(Reversed(ev.value))]
  /\ UNCHANGED <<db, mem, ops, clock, issued>>

NextCanon == Canonicalize

SpecCanon == InitCanon /\ [][NextCanon]_vars

(***************************************************************************)
(* Properties.  `ev` is the operation that settled in the last step, with  *)
(* the store and the reducer state it was issued in (ev.op.pre).           *)
(***************************************************************************)
MutationKinds ==
  {"createTask", "updateTask", "completeTask", "deferTask", "removeTask", "addEdge",
   "removeEdge", "importData"}

Settled(kind, result) == ev.kind = kind /\ ev.result = result

TaskOf(tasks, taskId) == Find(tasks, LAMBDA t : t.lds.id = taskId)

HasTask(tasks, taskId) == Exists(tasks, LAMBDA t : t.lds.id = taskId)

\* the hash of the entity with its own content_hash field cleared
HashOfCleared(task) == computeHash(TaskJson([task EXCEPT !.lds.content_hash = ""]))

\* C1: every task written by createTask, updateTask, completeTask or deferTask
\* carries the hash of its own canonical form with content_hash cleared.
C1_HashOverClearedEntity ==
  (ev.kind \in TaskKinds /\ ev.result = "ok") =>
    LET id == ev.op.task.lds.id
    IN /\ id \in DOMAIN db.tasks
       /\ db.tasks[id].lds.content_hash = HashOfCleared(db.tasks[id])

AllStepsCompleted(task) == \A i \in DOMAIN task.micro_steps : task.micro_steps[i].completed

SameSteps(task, before) ==
  /\ Len(task.micro_steps) = Len(before.micro_steps)
  /\ \A i \in DOMAIN task.micro_steps :
       /\ task.micro_steps[i].id = before.micro_steps[i].id
       /\ task.micro_steps[i].text = before.micro_steps[i].text

IsCompletedFrom(task, before) ==
  /\ task.status = "completed"
  /\ task.completed_at # Null
  /\ AllStepsCompleted(task)
  /\ SameSteps(task, before)

\* C2: when completeTask(id) resolves for a task of the state, the stored task and the
\* mirrored task are completed, have completed_at set and every micro-step completed,
\* with the same micro-steps in the same order as before.
C2_CompleteTaskCompletes ==
  Settled("completeTask", "ok") =>
    LET id == ev.op.task.lds.id
        before == TaskOf(ev.op.pre.mem.tasks, id)
    IN /\ id \in DOMAIN db.tasks
       /\ IsCompletedFrom(db.tasks[id], before)
       /\ HasTask(mem.tasks, id)
       /\ IsCompletedFrom(TaskOf(mem.tasks, id), before)

\* a completeTask resolved for a task that was not completed and had an open micro-step
C2_Witness ==
  /\ Settled("completeTask", "ok")
  /\ LET before == TaskOf(ev.op.pre.mem.tasks, ev.op.task.lds.id)
     IN /\ before.status # "completed"
        /\ ~AllStepsCompleted(before)
        /\ Len(before.micro_steps) = 2

Touches(edge, taskId) == edge.source = taskId \/ edge.target = taskId

\* C3: when removeTask(id) resolves, whatever was issued before it (nothing having been
\* issued after it), no edge of the store and no edge of the mirror has id as its
\* source or target.
C3_CascadeLeavesNoEdge ==
  (Settled("removeTask", "ok") /\ ev.op.seq = issued) =>
    /\ \A k \in DOMAIN db.edges : ~Touches(db.edges[k], ev.op.id)
    /\ \A i \in DOMAIN mem.edges : ~Touches(mem.edges[i], ev.op.id)

\* C4: the audit store is append-only: every stored entry stays, unchanged, over every
\* step (so the length never decreases), and an append whose id is already stored
\* fails and leaves the store as it was.
C4_AuditAppendOnly ==
  [][/\ \A id \in DOMAIN db.audit : id \in DOMAIN db'.audit /\ db'.audit[id] = db.audit[id]
     /\ \A s \in Slots :
          (/\ ops[s].pc = "audit"
           /\ ops[s].entry.id \in DOMAIN db.audit
           /\ ev'.kind # "none") =>
            (ev'.result = "failed" /\ db'.audit = db.audit)]_vars

\* an append met an id that was already stored, in a log of at least two entries
C4_Witness ==
  /\ ev.kind \in MutationKinds
  /\ ev.result = "failed"
  /\ ev.error = "ConstraintError"
  /\ ev.op.entry.id \in DOMAIN db.audit
  /\ db.audit[ev.op.entry.id] # ev.op.entry
  /\ Cardinality(DOMAIN db.audit) >= 2

ExpectedAction ==
  [createTask |-> "task_created", updateTask |-> "task_edited",
   completeTask |-> "task_completed", deferTask |-> "task_deferred",
   removeTask |-> "task_deleted", addEdge |-> "edge_created", removeEdge |-> "edge_deleted",
   importData |-> "kernel_imported"]

EntityIdOf(o) ==
  CASE o.kind \in TaskKinds -> o.task.lds.id
    [] o.kind \in {"removeTask", "removeEdge"} -> o.id
    [] o.kind = "addEdge" -> o.edge.id
    [] o.kind = "importData" -> "full_import"

NewAuditIds == (DOMAIN db.audit) \ (DOMAIN ev.op.pre.db.audit)

\* C5: a mutation that resolves has appended exactly one audit entry, tagged with its
\* action kind and the id of its entity; removeTask appends one task_deleted entry
\* however many edges it cascaded over.
C5_OneAuditEntryPerMutation ==
  (ev.kind \in MutationKinds /\ ev.result = "ok") =>
    /\ Cardinality(NewAuditIds) = 1
    /\ \A id \in NewAuditIds :
         /\ db.audit[id].action = ExpectedAction[ev.kind]
         /\ db.audit[id].entity_id = EntityIdOf(ev.op)
    /\ \A id \in DOMAIN ev.op.pre.db.audit :
         id \in DOMAIN db.audit /\ db.audit[id] = ev.op.pre.db.audit[id]

\* a removeTask resolved that cascaded over an edge
C5_Witness ==
  /\ Settled("removeTask", "ok")
  /\ \E k \in DOMAIN ev.op.pre.db.edges : Touches(ev.op.pre.db.edges[k], ev.op.id)
  /\ DOMAIN db.edges # DOMAIN ev.op.pre.db.edges

EntityMutationKinds == MutationKinds \ {"importData"}

\* C6: a task or edge mutation that fails at a storage call (entity write, edge delete
\* or audit append) leaves the persistent collections exactly as they were when it
\* began: no entity change without its audit entry, no deleted task whose edges remain.
C6_AtomicOrFailed ==
  (ev.kind \in EntityMutationKinds /\ ev.result = "failed") => db = ev.op.pre.db

WellFormedExport(data) ==
  /\ data.kind = "object"
  /\ {"tasks", "edges", "routines"} \subseteq data.has

\* C7: importData of a document that is not a well-formed export fails and leaves the
\* store, the mirror and the audit log exactly as they were.
C7_ImportFailsClosed ==
  (ev.kind = "importData" /\ (~ev.op.parses \/ ~WellFormedExport(ev.op.data))) =>
    /\ ev.result = "failed"
    /\ db = ev.op.pre.db
    /\ mem = ev.op.pre.mem

ReplacedCollections == {"tasks", "edges", "routines", "preferences"}

\* C8: when the replace-all of an import fails after it has started, the tasks, edges,
\* routines and preferences collections are all as they were before the import.
C8_ReplaceAllAtomic ==
  (ev.kind = "importData" /\ ev.result = "failed" /\ ev.error \in {"TypeError", "AbortError"}) =>
    \A c \in ReplacedCollections : db[c] = ev.op.pre.db[c]

\* C9: importData keeps every earlier audit entry unchanged, takes no entry from the
\* document's audit array, and appends the one kernel_imported entry (when it resolves;
\* none when it fails).
C9_ImportKeepsAudit ==
  ev.kind = "importData" =>
    /\ \A id \in DOMAIN ev.op.pre.db.audit :
         id \in DOMAIN db.audit /\ db.audit[id] = ev.op.pre.db.audit[id]
    /\ \A i \in DOMAIN ev.op.data.audit :
         ev.op.data.audit[i].id \in DOMAIN db.audit =>
           ev.op.data.audit[i].id \in DOMAIN ev.op.pre.db.audit
    /\ IF ev.result = "ok"
       THEN /\ Cardinality(NewAuditIds) = 1
            /\ \A id \in NewAuditIds :
                 /\ db.audit[id].action = "kernel_imported"
                 /\ db.audit[id].entity_type = "kernel"
            /\ Range(mem.auditLog) = Range(db.audit)
       ELSE NewAuditIds = {}

\* an import of a document with an audit array resolved over a non-empty audit log
C9_Witness ==
  /\ Settled("importData", "ok")
  /\ Len(ev.op.data.audit) > 0
  /\ Cardinality(DOMAIN ev.op.pre.db.audit) > 0
  /\ DOMAIN db.tasks = {"doc_task_1"}

\* C10: the round trip importAll(exportAll()) starts with an export that returns a
\* document and appends one kernel_exported entry.
C10_RoundTripExports ==
  ev.kind = "exportAllData" =>
    /\ ev.result = "ok"
    /\ Cardinality(NewAuditIds) = 1
    /\ \A id \in NewAuditIds : db.audit[id].action = "kernel_exported"

\* the records of a stored collection are the entries of the document's array
SameEntities(store, xs) == Range(store) = Range(xs)

\* C11: when importData(D) resolves, the tasks, edges and routines of the store and of
\* the mirror are exactly those of D, whatever was created, edited or removed since D
\* was exported.
C11_ImportReplaces ==
  Settled("importData", "ok") =>
    LET D == ev.op.data
    IN /\ SameEntities(db.tasks, D.tasks)
       /\ SameEntities(db.edges, D.edges)
       /\ SameEntities(db.routines, D.routines)
       /\ SameEntities(mem.tasks, D.tasks)
       /\ SameEntities(mem.edges, D.edges)
       /\ SameEntities(mem.routines, D.routines)

\* the export of the seeded store is imported over a store in which a seed task was
\* edited or removed, or a task or an edge was added, since
C11_Witness ==
  /\ Settled("importData", "ok")
  /\ ev.op.data = exportedSeed
  /\ \/ ~SameEntities(ev.op.pre.db.tasks, exportedSeed.tasks)
     \/ ~SameEntities(ev.op.pre.db.edges, exportedSeed.edges)
  /\ SameEntities(db.tasks, seedTasks)

InFlight(s) == ops[s].kind \in MutationKinds

\* C12: mutations run one at a time: while one mutation is between its first and its
\* last step, no other mutation has started.
C12_OneAtATime ==
  \A s \in Slots, t \in Slots : (s # t /\ InFlight(s)) => ~InFlight(t)

\* C13: the task createTask stores and mirrors has status pending, whatever the status
\* of the draft.
C13_CreatedIsPending ==
  Settled("createTask", "ok") =>
    LET id == ev.op.task.lds.id
    IN /\ db.tasks[id].status = "pending"
       /\ TaskOf(mem.tasks, id).status = "pending"

\* C14: a createTask that resolves used an id no stored task had: the store has one
\* task more and every task stored before is unchanged.
C14_CreateAddsOneTask ==
  Settled("createTask", "ok") =>
    /\ ev.op.task.lds.id \notin DOMAIN ev.op.pre.db.tasks
    /\ Cardinality(DOMAIN db.tasks) = Cardinality(DOMAIN ev.op.pre.db.tasks) + 1
    /\ \A id \in DOMAIN ev.op.pre.db.tasks :
         id \in DOMAIN db.tasks /\ db.tasks[id] = ev.op.pre.db.tasks[id]

\* C15: createTask of a draft with an empty title fails and leaves the store (tasks and
\* audit log) and the mirror as they were.
C15_BlankTitleRejected ==
  (ev.kind = "createTask" /\ ev.op.task.title = "") =>
    /\ ev.result = "failed"
    /\ db = ev.op.pre.db
    /\ mem = ev.op.pre.mem

\* C16: updateTask of a task whose id is neither stored nor mirrored fails: the task is
\* not added to the store or the mirror and no audit entry is appended.
C16_UpdateOfMissingFails ==
  (/\ ev.kind = "updateTask"
   /\ ev.op.task.lds.id \notin DOMAIN ev.op.pre.db.tasks
   /\ ~HasTask(ev.op.pre.mem.tasks, ev.op.task.lds.id)) =>
    /\ ev.result = "failed"
    /\ ev.op.task.lds.id \notin DOMAIN db.tasks
    /\ ~HasTask(mem.tasks, ev.op.task.lds.id)
    /\ NewAuditIds = {}

\* C17: removeTask and removeEdge of an id that is neither stored nor mirrored leave
\* every collection, the audit log included, and the mirror as they were.
C17_RemoveOfMissingIsNoOp ==
  (\/ /\ ev.kind = "removeTask"
      /\ ev.op.id \notin DOMAIN ev.op.pre.db.tasks
      /\ ~HasTask(ev.op.pre.mem.tasks, ev.op.id)
   \/ /\ ev.kind = "removeEdge"
      /\ ev.op.id \notin DOMAIN ev.op.pre.db.edges
      /\ ~Exists(ev.op.pre.mem.edges, LAMBDA e : e.id = ev.op.id)) =>
    /\ db = ev.op.pre.db
    /\ mem = ev.op.pre.mem

\* the id an operation on a task was called with
RequestedId(o) == IF "id" \in DOMAIN o THEN o.id ELSE o.task.lds.id

\* C18: completeTask and deferTask of an id that is not in the task set of the state
\* return without raising, without a store write, a mirror change or an audit entry.
C18_MissingIdIsNoOp ==
  (/\ ev.kind \in {"completeTask", "deferTask"}
   /\ ~HasTask(ev.op.pre.mem.tasks, RequestedId(ev.op))) =>
    /\ ev.result = "noop"
    /\ db = ev.op.pre.db
    /\ mem = ev.op.pre.mem

\* completeTask or deferTask returned for the id of a task that had been removed
C18_Witness ==
  /\ ev.kind \in {"completeTask", "deferTask"}
  /\ ev.result = "noop"
  /\ ev.op.id = "seed_task_1"
  /\ "seed_task_1" \notin DOMAIN db.tasks
  /\ Len(mem.auditLog) >= 2

\* `after` is `before` but for status = deferred, $lds.updated and $lds.content_hash
OnlyDeferred(after, before) ==
  /\ after.status = "deferred"
  /\ [after EXCEPT !.status = before.status, !.lds.updated = before.lds.updated,
                   !.lds.content_hash = before.lds.content_hash] = before

OthersUnchanged(after, before, id) ==
  /\ (DOMAIN after) \ {id} = (DOMAIN before) \ {id}
  /\ \A k \in (DOMAIN before) \ {id} : after[k] = before[k]

\* C19: when deferTask(id) resolves for a task of the state, the stored and the
\* mirrored task differ from the task before only in status (deferred), $lds.updated and
\* $lds.content_hash; every other task and every edge is unchanged.
C19_DeferTouchesOnlyStatus ==
  Settled("deferTask", "ok") =>
    LET id == ev.op.task.lds.id
        before == TaskOf(ev.op.pre.mem.tasks, id)
    IN /\ id \in DOMAIN db.tasks
       /\ OnlyDeferred(db.tasks[id], before)
       /\ id \in DOMAIN ev.op.pre.db.tasks => OnlyDeferred(db.tasks[id], ev.op.pre.db.tasks[id])
       /\ HasTask(mem.tasks, id)
       /\ OnlyDeferred(TaskOf(mem.tasks, id), before)
       /\ OthersUnchanged(db.tasks, ev.op.pre.db.tasks, id)
       /\ Len(mem.tasks) = Len(ev.op.pre.mem.tasks)
       /\ \A i \in DOMAIN mem.tasks :
            mem.tasks[i].lds.id # id => mem.tasks[i] = ev.op.pre.mem.tasks[i]
       /\ db.edges = ev.op.pre.db.edges
       /\ mem.edges = ev.op.pre.mem.edges

KeepsCompletedKinds ==
  {"completeTask", "deferTask", "addEdge", "removeEdge", "updatePreferences", "exportAllData"}

\* C20: every task that was completed when a completeTask, deferTask, addEdge,
\* removeEdge, updatePreferences or exportAllData began is still stored and completed
\* when that operation has settled.
C20_CompletedStaysCompleted ==
  (ev.kind \in KeepsCompletedKinds /\ ev.result \in {"ok", "failed", "noop"}) =>
    \A id \in DOMAIN ev.op.pre.db.tasks :
      ev.op.pre.db.tasks[id].status = "completed" =>
        /\ id \in DOMAIN db.tasks
        /\ db.tasks[id].status = "completed"

\* every entry of `before` that P spares is in `after`, unchanged, and `after` has no
\* other key than those of `before`
StoreKeeps(after, before, Spared(_)) ==
  /\ DOMAIN after \subseteq DOMAIN before
  /\ \A k \in DOMAIN before : Spared(before[k]) => (k \in DOMAIN after /\ after[k] = before[k])

ListKeeps(after, before, Spared(_)) ==
  /\ Range(after) \subseteq Range(before)
  /\ \A i \in DOMAIN before : Spared(before[i]) => before[i] \in Range(after)

C22_UpdatePreferencesFrame ==
  Settled("updatePreferences", "ok") =>
    LET before == ev.op.pre
        expected == [k \in DOMAIN getPreferences(before.db) |->
                       IF k \in DOMAIN ev.op.partial THEN ev.op.partial[k]
                       ELSE getPreferences(before.db)[k]]
    IN /\ DOMAIN ev.op.partial \subseteq DOMAIN getPreferences(before.db)
       /\ getPreferences(db) = expected
       /\ mem.preferences = expected
       /\ [db EXCEPT !.preferences = before.db.preferences] = before.db
       /\ [mem EXCEPT !.preferences = before.mem.preferences] = before.mem

\* the canonical strings of the elements of an array, in order
ElementStrings(value) == [i \in DOMAIN value.v |-> canonicalize(value.v[i])]

\* C23: canonicalizing a value twice gives the same string; a copy whose objects have
\* their keys inserted in another order, at any depth, gives that string too; an array
\* whose elements are put in the opposite order gives another string unless the
\* elements read the same in both directions.
C23_CanonicalizeDeterministic ==
  ev.kind = "canonical" =>
    /\ ev.once = ev.twice
    /\ ev.ofCopy = ev.once
    /\ (ev.value.t = "arr" /\ ElementStrings(ev.value) # ElementStrings(Reversed(ev.value)))
         => ev.ofReversed # ev.once

\* an object holding an object was canonicalized next to a copy whose outer and inner
\* keys were inserted in another order
C23_Witness ==
  /\ ev.kind = "canonical"
  /\ ev.value.t = "obj"
  /\ Len(ev.value.v) = 2
  /\ ev.value.v[1][1] # ev.copy.v[1][1]
  /\ \E i \in DOMAIN ev.value.v, j \in DOMAIN ev.copy.v :
       /\ ev.value.v[i][1] = ev.copy.v[j][1]
       /\ ev.value.v[i][2].t = "obj"
       /\ Len(ev.value.v[i][2].v) = 2
       /\ ev.value.v[i][2] # ev.copy.v[j][2]

\* C24: the Export action of Settings writes a file, and the Import action given that
\* file succeeds and leaves tasks, edges, routines and preferences as they were at
\* export time (so never an emptied tasks collection).
C24_SettingsExportImports ==
  ev.kind = "exportAllData" =>
    /\ ev.op.file # NoFile
    /\ LET r == importKernel(db, parseFile(ev.op.file), FALSE)
       IN /\ r.ok
          /\ \A c \in ReplacedCollections : r.db[c] = db[c]

Quiescent == (\A s \in Slots : ops[s].kind = "idle") /\ ~mem.isLoading

\* C25: whenever no operation is in progress, the mirror holds the same tasks, edges,
\* audit entries and preferences as the store.
C25_MirrorMatchesStore ==
  Quiescent =>
    /\ Range(mem.tasks) = Range(db.tasks)
    /\ Range(mem.edges) = Range(db.edges)
    /\ Range(mem.auditLog) = Range(db.audit)
    /\ mem.preferences = getPreferences(db)

\* C26: the seeding branch of the load effect runs on an empty store only: a start-up
\* over a store that already holds edges, routines, preferences or audit entries does
\* not seed.
C26_SeedsOnFirstRunOnly ==
  \A s \in Slots : ops[s].pc = "seed" => db = emptyDB

\* C27: an updateTask whose putTask fails leaves the mirror exactly as it was when the
\* call began.
C27_FailedUpdateKeepsMirror ==
  (ev.kind = "updateTask" /\ ev.result = "failed" /\ ev.op.pc = "put") =>
    mem = ev.op.pre.mem

\* C28: importData never leaves the preferences store empty: without preferences in the
\* document the stored record is as before; with preferences a resolved import has
\* stored the document's; a resolved import has replaced tasks, edges and routines by
\* the document's.
C28_ImportKeepsPreferences ==
  ev.kind = "importData" =>
    LET D == ev.op.data
    IN /\ ~HasPreferences(D) => db.preferences = ev.op.pre.db.preferences
       /\ ev.op.pre.db.preferences # EmptyStore => db.preferences # EmptyStore
       /\ ev.result = "ok" =>
            /\ HasPreferences(D) => getPreferences(db) = D.preferences
            /\ mem.preferences = getPreferences(db)
            /\ SameEntities(db.tasks, D.tasks)
            /\ SameEntities(db.edges, D.edges)
            /\ SameEntities(db.routines, D.routines)

\* a document without preferences was imported over changed preferences and emptied the
\* tasks
C28_Witness ==
  /\ Settled("importData", "ok")
  /\ ~HasPreferences(ev.op.data)
  /\ getPreferences(db) # defaultPreferences
  /\ ev.op.pre.db.tasks # EmptyStore
  /\ db.tasks = EmptyStore

\* C29: the write of every updatePreferences that resolves leaves, in the store and in
\* the mirror, the preferences that were there just before it with the keys of its
\* partial overridden, so that no change of another update is lost.
C29_NoLostPreferenceUpdate ==
  [][\A s \in Slots :
       (/\ ops[s].kind = "updatePreferences"
        /\ ops'[s].kind = "idle"
        /\ ev'.kind = "updatePreferences"
        /\ ev'.result = "ok") =>
         /\ getPreferences(db') = MergePreferences(getPreferences(db), ops[s].partial)
         /\ mem'.preferences = MergePreferences(mem.preferences, ops[s].partial)]_vars

\* the ids createTask can assign
CreatedIds == Range(GenIds("task"))

\* C30: a stored task that createTask created has completed_at set exactly when its
\* status is completed.
C30_CompletedAtIffCompleted ==
  \A id \in (DOMAIN db.tasks) \cap CreatedIds :
    (db.tasks[id].completed_at # Null) <=> (db.tasks[id].status = "completed")

====
